---- MODULE Spec2Model ----
(***************************************************************************)
(* A model of the BoundedDict package: Bound and Entry                     *)
(* (src/boundeddict/entry.py) and the BoundedDict facade                   *)
(* (src/boundeddict/__init__.py).                                          *)
(*                                                                         *)
(* Keys are small naturals.  Stored values are small naturals standing for *)
(* arbitrary hashable Python values; 0 is the falsy one (0, "", False).    *)
(* What a call gives back is a tagged record: None, one value, a list of   *)
(* values, or a raised exception.                                          *)
(***************************************************************************)
EXTENDS Naturals, Sequences, FiniteSets

\* ------------------------------------------------------------------ bounds
MaxKey == 1        \* endpoints of Entry bounds and of queries are 0..MaxKey
MaxPoint == 2      \* endpoints of directly constructed Bounds are 0..MaxPoint
MaxValue == 1      \* stored values are 0..MaxValue
MaxNodes == 5      \* Entries in the tree under root
MaxBounds == 2     \* Bounds alive in the Bound specification
MaxEntries == 2    \* top-level Entries of a populated forest

Keys == 0..MaxKey
Points == 0..MaxPoint
Values == 0..MaxValue

VARIABLES root, entries, bounds, written, last

vars == <<root, entries, bounds, written, last>>

\* ------------------------------------------------------------- results
None == [tag |-> "none", val |-> 0, vals |-> <<>>, exc |-> ""]
One(v) == [tag |-> "one", val |-> v, vals |-> <<>>, exc |-> ""]
Many(s) == [tag |-> "many", val |-> 0, vals |-> s, exc |-> ""]
Raise(e) == [tag |-> "raise", val |-> 0, vals |-> <<>>, exc |-> e]

\* The record of the last call: its name, its key or bounds argument, its
\* value argument, its default argument and what it gave back.
Call(op, key, val, dflt, res) ==
    [op |-> op, key |-> key, val |-> val, dflt |-> dflt, res |-> res]

NoCall == Call("", <<>>, 0, None, None)

Bool(b) == [tag |-> "bool", val |-> IF b THEN 1 ELSE 0, vals |-> <<>>, exc |-> ""]

Range(s) == {s[i] : i \in DOMAIN s}

\* The orders in which a Python set of the values S can be iterated.
Orders(S) ==
    {s \in [1..Cardinality(S) -> S] : \A i, j \in DOMAIN s : i # j => s[i] # s[j]}

\* isinstance(bounds, typing.Sequence) and len(bounds) == 2
WellFormed(key) == Len(key) = 2

\* --------------------------------------------------------------- Bound
BoundInit(lower, upper) == [lower |-> lower, upper |-> upper]

intersects_on_left(self, other) ==
    other.lower <= self.upper /\ self.upper <= other.upper

intersects_on_right(self, other) ==
    self.lower <= other.lower /\ other.lower <= self.upper

intersects(self, other) ==
    intersects_on_left(self, other) \/ intersects_on_right(self, other)

\* --------------------------------------------------------------- Entry
EntryInit(lower_bound, upper_bound, value) ==
    LET lo == IF lower_bound > upper_bound THEN upper_bound ELSE lower_bound
        hi == IF lower_bound > upper_bound THEN lower_bound ELSE upper_bound
    IN  [bound |-> BoundInit(lo, hi), value |-> value, children |-> <<>>]

EntryContainsStrict(self, key) ==
    self.bound.lower < key[1] /\ key[2] < self.bound.upper

\* Entry.__contains__ on a well-formed pair.
EntryContains(self, key) ==
    self.bound.lower <= key[1] /\ key[2] <= self.bound.upper

\* The indices of the children that contain the query, in list order.
Matching(self, key) ==
    {i \in DOMAIN self.children : EntryContains(self.children[i], key)}

RECURSIVE search(_, _)
\* Entry.search: the set of outcomes the call can have.  The candidates are
\* collected in a Python set and turned into a list, so a list-valued child
\* result cannot be hashed (TypeError) and the list's order is the set's
\* iteration order, which is any order.
search(self, key) ==
    IF ~WellFormed(key) THEN {Raise("ValueError")}
    ELSE IF ~EntryContains(self, key) THEN {None}
    ELSE LET found == [i \in Matching(self, key) |-> search(self.children[i], key)]
             unhashable == \E i \in DOMAIN found :
                              \E r \in found[i] : r.tag \in {"many", "raise"}
             candidates == {r.val : r \in UNION {found[i] : i \in DOMAIN found}}
         IN  IF unhashable THEN {Raise("TypeError")}
             ELSE IF Cardinality(candidates) = 1
                  THEN {One(v) : v \in candidates}
             ELSE IF Cardinality(candidates) > 1
                  THEN {Many(s) : s \in Orders(candidates)}
             ELSE {One(self.value)}

\* The assignment self.value = value: value is a property with a getter
\* only, so the assignment raises and the Entry keeps its value.
SetValue(self, value) == [entry |-> self, res |-> Raise("AttributeError")]

\* Entry.set(lower_bound, upper_bound, value)
EntrySet(self, lower_bound, upper_bound, value) ==
    LET lo == IF lower_bound > upper_bound THEN upper_bound ELSE lower_bound
        hi == IF lower_bound > upper_bound THEN lower_bound ELSE upper_bound
    IN  IF self.bound.lower = lo /\ self.bound.upper = hi
        THEN SetValue(self, value)
        ELSE [entry |-> self, res |-> None]

\* ------------------------------------------------------ trees of Entries
RECURSIVE NodeCount(_)
NodeCount(e) ==
    LET RECURSIVE Sum(_)
        Sum(i) == IF i = 0 THEN 0 ELSE NodeCount(e.children[i]) + Sum(i - 1)
    IN  1 + Sum(Len(e.children))

RECURSIVE Paths(_)
\* The Entries of a tree, each named by the child indices leading to it.
Paths(e) ==
    {<<>>} \cup UNION {{<<i>> \o p : p \in Paths(e.children[i])} : i \in DOMAIN e.children}

RECURSIVE Attach(_, _, _)
\* The tree with child appended to the children of the Entry at path p.
Attach(e, p, child) ==
    IF p = <<>>
    THEN [e EXCEPT !.children = Append(@, child)]
    ELSE [e EXCEPT !.children[Head(p)] = Attach(@, Tail(p), child)]

\* -------------------------------------------------- Entry specification
\* The caller makes one call at a time: last holds the call that has
\* returned and not yet been taken, NoCall when there is none.
Return ==
    /\ last # NoCall
    /\ last' = NoCall
    /\ UNCHANGED <<root, entries, bounds, written>>

InitEntry ==
    /\ root \in {EntryInit(lo, hi, v) : lo \in Keys, hi \in Keys, v \in Values}
    /\ entries = <<>>
    /\ bounds = <<>>
    /\ written = <<>>
    /\ last = NoCall

\* Attaching a child Entry to an Entry of the tree (the structural insertion).
AddChild ==
    /\ last = NoCall
    /\ NodeCount(root) < MaxNodes
    /\ \E p \in Paths(root), lo \in Keys, hi \in Keys, v \in Values :
          root' = Attach(root, p, EntryInit(lo, hi, v))
    /\ UNCHANGED <<entries, bounds, written, last>>

QueryKeys == {<<a, b>> : a \in Keys, b \in Keys} \cup {<<a>> : a \in Keys}

Search ==
    /\ last = NoCall
    /\ \E key \in QueryKeys :
          \E res \in search(root, key) :
             last' = Call("search", key, 0, None, res)
    /\ UNCHANGED <<root, entries, bounds, written>>

Set ==
    /\ last = NoCall
    /\ \E lo \in Keys, hi \in Keys, v \in Values :
          LET out == EntrySet(root, lo, hi, v)
          IN  /\ root' = out.entry
              /\ last' = Call("set", <<lo, hi>>, v, None, out.res)
    /\ UNCHANGED <<entries, bounds, written>>

NextEntry == AddChild \/ Search \/ Set \/ Return

SpecEntry == InitEntry /\ [][NextEntry]_vars

\* -------------------------------------------------- Bound specification
NoEntry == EntryInit(0, 0, 0)

InitBound ==
    /\ root = NoEntry
    /\ entries = <<>>
    /\ bounds = <<>>
    /\ written = <<>>
    /\ last = NoCall

\* Bound(lower, upper), constructed directly.
NewBound ==
    /\ last = NoCall
    /\ Len(bounds) < MaxBounds
    /\ \E lo \in Points, hi \in Points :
          /\ bounds' = Append(bounds, BoundInit(lo, hi))
          /\ last' = Call("Bound", <<lo, hi>>, 0, None, None)
    /\ UNCHANGED <<root, entries, written>>

\* Entry(lower_bound, upper_bound, value): the Bound the Entry builds.
NewEntry ==
    /\ last = NoCall
    /\ Len(bounds) < MaxBounds
    /\ \E lo \in Points, hi \in Points, v \in Values :
          /\ bounds' = Append(bounds, EntryInit(lo, hi, v).bound)
          /\ last' = Call("Entry", <<lo, hi>>, v, None, None)
    /\ UNCHANGED <<root, entries, written>>

\* bounds[i].intersects(bounds[j])
Intersects ==
    /\ last = NoCall
    /\ \E i \in DOMAIN bounds, j \in DOMAIN bounds :
          last' = Call("intersects", <<i, j>>, 0, None,
                       Bool(intersects(bounds[i], bounds[j])))
    /\ UNCHANGED <<root, entries, bounds, written>>

NextBound == NewBound \/ NewEntry \/ Intersects \/ Return

SpecBound == InitBound /\ [][NextBound]_vars

\* --------------------------------------------------------- BoundedDict
\* Python truthiness of what Entry.search returned.
Truthy(r) == r.tag = "many" \/ (r.tag = "one" /\ r.val # 0)

RECURSIVE Scan(_, _, _, _)
\* The loop of BoundedDict.search from the i-th top-level Entry on.
Scan(es, i, key, default) ==
    IF i > Len(es) THEN {default}
    ELSE UNION {IF r.tag = "raise" \/ Truthy(r) THEN {r}
                ELSE Scan(es, i + 1, key, default) : r \in search(es[i], key)}

\* BoundedDict.search(key, default)
DictSearch(es, key, default) ==
    IF ~WellFormed(key) THEN {Raise("ValueError")} ELSE Scan(es, 1, key, default)

\* BoundedDict.get(key, default)
DictGet(es, key, default) ==
    IF ~WellFormed(key) THEN {Raise("ValueError")} ELSE DictSearch(es, key, default)

\* uuid1(): equal to no stored value and to no list of them.
Sentinel == [tag |-> "sentinel", val |-> 0, vals |-> <<>>, exc |-> ""]

\* BoundedDict.__getitem__(key)
DictGetItem(es, key) ==
    IF ~WellFormed(key) THEN {Raise("ValueError")}
    ELSE {IF r = Sentinel THEN Raise("KeyError") ELSE r :
             r \in DictSearch(es, key, Sentinel)}

DictSetItemInserting(es, key, value) ==
    IF ~WellFormed(key) THEN [entries |-> es, res |-> Raise("ValueError")]
    ELSE IF \E i \in DOMAIN es : EntryContains(es[i], key)
         THEN [entries |-> es, res |-> Raise("AttributeError")]
         ELSE [entries |-> Append(es, EntryInit(key[1], key[2], value)),
               res |-> None]

\* BoundedDict.__setitem__(key, value): the first top-level Entry that
\* contains the key reaches key.set(key, value), and a tuple has no set.
DictSetItem(es, key, value) ==
    IF ~WellFormed(key) THEN [entries |-> es, res |-> Raise("ValueError")]
    ELSE IF \E i \in DOMAIN es : EntryContains(es[i], key)
         THEN [entries |-> es, res |-> Raise("AttributeError")]
         ELSE [entries |-> es, res |-> None]

\* BoundedDict.__init__
InitDict ==
    /\ root = NoEntry
    /\ entries = <<>>
    /\ bounds = <<>>
    /\ written = <<>>
    /\ last = NoCall

Defaults == {None} \cup {One(v) : v \in Values}

\* d[key] = value; written keeps the last assignment that returned normally.
SetItem ==
    /\ last = NoCall
    /\ \E key \in QueryKeys, v \in Values :
          LET out == DictSetItem(entries, key, v)
          IN  /\ entries' = out.entries
              /\ last' = Call("setitem", key, v, None, out.res)
              /\ written' = IF out.res = None THEN <<key, v>> ELSE written
    /\ UNCHANGED <<root, bounds>>

Get ==
    /\ last = NoCall
    /\ \E key \in QueryKeys, d \in Defaults :
          \E res \in DictGet(entries, key, d) :
             last' = Call("get", key, 0, d, res)
    /\ UNCHANGED <<root, entries, bounds, written>>

GetItem ==
    /\ last = NoCall
    /\ \E key \in QueryKeys :
          \E res \in DictGetItem(entries, key) :
             last' = Call("getitem", key, 0, None, res)
    /\ UNCHANGED <<root, entries, bounds, written>>

SearchDict ==
    /\ last = NoCall
    /\ \E key \in QueryKeys, d \in Defaults :
          \E res \in DictSearch(entries, key, d) :
             last' = Call("dictsearch", key, 0, d, res)
    /\ UNCHANGED <<root, entries, bounds, written>>

Next == SetItem \/ Get \/ GetItem \/ SearchDict \/ Return

Spec == InitDict /\ [][Next]_vars

\* ------------------------------------------- a populated forest
\* A top-level Entry added to the forest (the forest-level insertion).
InsertEntry ==
    /\ last = NoCall
    /\ Len(entries) < MaxEntries
    /\ \E lo \in Keys, hi \in Keys, v \in Values :
          entries' = Append(entries, EntryInit(lo, hi, v))
    /\ UNCHANGED <<root, bounds, written, last>>

NextForest == InsertEntry \/ SetItem \/ Get \/ GetItem \/ SearchDict \/ Return

SpecForest == InitDict /\ [][NextForest]_vars

\* ================================================================ claims
\* The last call was Entry.search on root with a well-formed query.
Searched == last.op = "search" /\ WellFormed(last.key)

\* What the children of self that contain the query resolve to: one
\* candidate per distinct child resolution (a resolution is the set of
\* outcomes the child's search can have).
ChildCandidates(self, key) ==
    {search(self.children[i], key) : i \in Matching(self, key)}

\* C1: when the Entry contains the query, Entry.search returns the Entry's
\* own value if no child contains the query, and the child's resolution if
\* the children that contain it yield exactly one distinct candidate.
C1_FallbackAndRefinement ==
    (Searched /\ EntryContains(root, last.key)) =>
        LET cands == ChildCandidates(root, last.key)
        IN  /\ cands = {} => last.res = One(root.value)
            /\ Cardinality(cands) = 1 => \A c \in cands : last.res \in c

C3_AmbiguityReturnsAllCandidates ==
    (Searched /\ EntryContains(root, last.key)) =>
        LET cands == ChildCandidates(root, last.key)
        IN  Cardinality(cands) > 1 =>
               /\ last.res.tag = "many"
               /\ Len(last.res.vals) = Cardinality(cands)
               /\ \A c \in cands : \A r \in c :
                     r.tag = "one" => r.val \in Range(last.res.vals)

RECURSIVE FirstSeen(_, _, _)
\* The values of the children from the i-th on that contain the query, in
\* list order, each value at its first occurrence only.
FirstSeen(self, key, i) ==
    IF i > Len(self.children) THEN <<>>
    ELSE LET rest == FirstSeen(self, key, i + 1)
             v == self.children[i].value
         IN  IF EntryContains(self.children[i], key)
             THEN <<v>> \o SelectSeq(rest, LAMBDA x : x # v)
             ELSE rest

\* C4: the values of an ambiguity result are in the insertion order of the
\* children that produced them.
C4_AmbiguityInInsertionOrder ==
    (Searched /\ last.res.tag = "many") =>
        last.res.vals = FirstSeen(root, last.key, 1)

\* C5: Entry.search((a, b)) returns what Entry.search((b, a)) returns.
C5_ReversedQuerySameResult ==
    Searched => last.res \in search(root, <<last.key[2], last.key[1]>>)

\* C6: Entry.set with a target that, once its endpoints are ordered, equals
\* the Entry's bound replaces the Entry's value by the given one and
\* returns; with any other target it returns leaving the Entry as it was.
C6_SetExactReplacesValue ==
    last.op = "set" =>
        LET lo == IF last.key[1] > last.key[2] THEN last.key[2] ELSE last.key[1]
            hi == IF last.key[1] > last.key[2] THEN last.key[1] ELSE last.key[2]
        IN  /\ last.res = None
            /\ root.bound = BoundInit(lo, hi) => root.value = last.val

\* C7: for bounds with lower <= upper, a.intersects(b) is true exactly when
\* the two closed intervals share a point.
C7_IntersectsIffSharePoint ==
    last.op = "intersects" =>
        LET a == bounds[last.key[1]]
            b == bounds[last.key[2]]
        IN  (a.lower <= a.upper /\ b.lower <= b.upper) =>
               last.res = Bool(\E x \in Points :
                                  /\ a.lower <= x /\ x <= a.upper
                                  /\ b.lower <= x /\ x <= b.upper)

\* C8: every Bound, built by an Entry or constructed directly, has
\* lower <= upper.
C8_LowerAtMostUpper ==
    \A i \in DOMAIN bounds : bounds[i].lower <= bounds[i].upper

\* C9: a read through the facade with a well-formed key returns the
\* resolution of the first top-level Entry whose bound contains the key,
\* whatever the stored value, and the default (KeyError for d[key]) only
\* when no top-level Entry contains the key.
C9_ReadReturnsFirstContainingEntry ==
    (last.op \in {"get", "dictsearch", "getitem"} /\ WellFormed(last.key)) =>
        LET hits == {i \in DOMAIN entries : EntryContains(entries[i], last.key)}
            first == CHOOSE i \in hits : \A j \in hits : i <= j
        IN  IF hits = {}
            THEN last.res = IF last.op = "getitem" THEN Raise("KeyError")
                            ELSE last.dflt
            ELSE last.res \in search(entries[first], last.key)

\* C10: a BoundedDict never holds a top-level Entry: d[k] = v with a
\* well-formed key returns without effect, get and search return their
\* default and d[k] raises KeyError.
C10_NeverHoldsAnEntry ==
    /\ entries = <<>>
    /\ WellFormed(last.key) =>
          /\ last.op = "setitem" => last.res = None
          /\ last.op \in {"get", "dictsearch"} => last.res = last.dflt
          /\ last.op = "getitem" => last.res = Raise("KeyError")

\* C10 witness: after d[k] = v returned, get(k, default) has given back a
\* default other than v.
C10_WrittenNotReadBack ==
    /\ written # <<>>
    /\ last.op = "get"
    /\ last.key = written[1]
    /\ last.dflt # One(written[2])
    /\ last.res = last.dflt

====
